---------------------------- MODULE Spec2Model ----------------------------
(***************************************************************************)
(* Extraction pipeline of the GitHub analytics repository: the HTTP client *)
(* make_safe_request (src/utils/api.py), the request budget and the paged  *)
(* search harvest of RepoInfoExtractor (src/etl/repo_info/extractor.py),   *)
(* the tree walk of RepoStructureExtractor and the blob fetch of           *)
(* RepoContentExtractor (src/etl/extraction), the earlier search harvester *)
(* RepoMetadataExtractor (src/etl/extractors), the tables of DBHandler     *)
(* (src/utils/db_handler.py) and the load runs that fill them.             *)
(* Time is an integer clock; one tick stands for a fixed number of seconds *)
(* and the second-valued constants of the code are scaled to ticks.        *)
(***************************************************************************)
EXTENDS Integers, Sequences, FiniteSets, Bags, TLC

(* ------------------------------ bounds -------------------------------- *)
\* scaled program constants (src/etl/extraction/constants.py)
MAX_ITEMS_PER_PAGE == 2
SEARCH_ITEMS_LIMIT == 4
RATE_LIMITER_WINDOW == 4
\* the 60 second slice of the throttling loop, in ticks
SLEEP_SLICE == 2
\* largest max_requests_per_hour an extractor is constructed with
MaxBudget == 2
\* largest retry_attempts / timeout / pagination_timeout of a constructor
MaxRetry == 2
MaxTimeout == 2
MaxPaginationTimeout == 1
\* longest time one GET takes beyond zero ticks
MaxLatency == 1
\* the clock stops the run here
MaxTime == 9
\* number of distinct repositories the provider can return
MaxItemId == 2
\* last day of the calendar the date range is drawn from
MaxDate == 2
\* longest language list a caller supplies
MaxLangs == 2
\* most repositories select_repo_info returns for one key
MaxRepos == 2
\* most tree fetches followed within one fetch_repo_structure call
MaxTreeFetches == 2
\* key values and updated_at values of the rows of a table
MaxRowKey == 2
MaxStamp == 2
\* most rows of one update_table call, most DBHandler calls followed
MaxBatch == 2
MaxCalls == 4

(* ------------------------------ state --------------------------------- *)
VARIABLES
    prog,                   \* the extractor that runs: info, structure, content,
                            \* or metadata (src/etl/extractors/repo_metadata.py)
    now,                    \* time.time()
    _start,                 \* RepoInfoExtractor._start
    _request_counter,       \* RepoInfoExtractor._request_counter
    max_requests_per_hour,  \* constructor arguments
    retry_attempts,
    timeout,
    pagination_timeout,
    db,                     \* TRUE when a DB session was passed
    languages,              \* arguments of run
    start_date,
    end_date,
    overwrite,
    repos_db,               \* structure: rows of github.repo by (language, date)
    path_pattern,           \* structure: a pattern or None; content: a list
    in_files,               \* content: the files of input_dir
    limit,                  \* content: `limit`
    table,                  \* DBHandler: the rows of one table, a bag
    batches,                \* DBHandler: the frames update_table will be given
    todo,                   \* DBHandler: the frames not yet appended
    calls,                  \* history: the DBHandler calls made
    fs,                     \* output_dir: key -> rows of the file
    meta,                   \* table repo_file_metadata: (language, date) -> row
    pc,                     \* position of the single worker
    error,                  \* the exception that left run, if any
    dates,                  \* run: the date range
    di,                     \* run: index of the loop over dates
    li,                     \* extract: index of the loop over languages
    start,                  \* extract: local `start`
    page,                   \* fetch_repos: loop variable
    df,                     \* fetch_repos: accumulated items
    throttle,               \* fetch_repos: local `timeout` of the sleep loop
    repo_df,                \* structure extract: the repositories of the key
    url_df,                 \* content run: the rows read from input_dir
    input_data,             \* content extract: the rows matching the pattern
    pi,                     \* content run: index of the loop over patterns
    ri,                     \* extract: index of the loop over rows
    branch,                 \* fetch_repo_structure: local `branch`
    tree_response,          \* fetch_repo_structure: local `response`
    output,                 \* extract: local `output`
    walk,                   \* history: requests of this fetch_repo_structure
    endpoint,               \* make_safe_request: what `url` addresses
    counter,                \* make_safe_request: local counter
    response,               \* make_safe_request: last response
    gets,                   \* history: statuses of the GETs of this client call
    sleeps,                 \* history: sleeps of this client call
    reqTimes,               \* history: dispatch time of every page request
    winReqs,                \* history: page requests since _start was set
    slept,                  \* history: ticks slept by the last throttle
    pageLog,                \* history: bodies of the pages of this harvest
    keyLog                  \* history: what was true when this key was reached

runArgs == <<prog, max_requests_per_hour, retry_attempts, timeout,
             pagination_timeout, db, start_date, end_date, overwrite, repos_db,
             path_pattern, in_files, limit>>
tableVars == <<table, batches, todo, calls>>
\* what no extractor writes
argVars == <<runArgs, tableVars>>
cfgVars == <<argVars, languages>>
clientVars == <<endpoint, counter, response, gets, sleeps>>
walkVars == <<repo_df, url_df, input_data, pi, ri, branch, tree_response,
              output, walk>>
budgetVars == <<_start, _request_counter, winReqs>>
fetchVars == <<page, df, throttle, slept, pageLog>>
driverVars == <<dates, di, li, start, keyLog>>
storeVars == <<fs, meta>>

vars == <<now, cfgVars, clientVars, budgetVars, fetchVars, driverVars,
          walkVars, storeVars, pc, error, reqTimes>>

(* ----------------------------- data ----------------------------------- *)
\* src/utils/api.py SUPPORTED_LANGUAGES (three of its keys), the list of the
\* same name of repo_structure.py, and one label neither holds
SUPPORTED_LANGUAGES == {"python", "jupyter-notebook", "go"}
STRUCTURE_LANGUAGES == {"python", "jupyter-notebook"}
Langs == SUPPORTED_LANGUAGES \cup {"cobol"}

\* a path of output_dir: absent, or a parquet file holding rows
NoFile == [exists |-> FALSE, rows |-> <<>>]
File(rows) == [exists |-> TRUE, rows |-> rows]
\* a (language, date) of repo_file_metadata: no row, or a row
NoRow == [present |-> FALSE, n_repos |-> 0, elapsed_time_seconds |-> 0,
          updated_at |-> 0]
Row(n, e, t) == [present |-> TRUE, n_repos |-> n, elapsed_time_seconds |-> e,
                 updated_at |-> t]
NoResponse == [status |-> 0, total_count |-> 0, items |-> <<>>]
\* what the history of GETs holds for a GET that raised instead of answering
Raised == NoResponse.status

Min(a, b) == IF a < b THEN a ELSE b

SeqsUpTo(S, n) == UNION {[1..k -> S] : k \in 0..n}

\* language lists without repetition, at most MaxLangs long
LangLists ==
    {l \in SeqsUpTo(Langs, MaxLangs) :
        Len(l) >= 1 /\ \A i, j \in 1..Len(l) : i # j => l[i] # l[j]}

Dates == 1..MaxDate
None == 0
Keys == Langs \X Dates
NoFiles == [k \in Keys |-> NoFile]
NoRepos == [k \in Keys |-> <<>>]
NoRows == [k \in Keys |-> NoRow]

\* what the search endpoint can answer to one GET
Statuses == {200, 403, 404, 429, 500}
ItemIds == 1..MaxItemId
TotalCounts == {0, 1, MAX_ITEMS_PER_PAGE, SEARCH_ITEMS_LIMIT, SEARCH_ITEMS_LIMIT + 1}
Bodies ==
    [status : {200}, total_count : TotalCounts,
     items : SeqsUpTo(ItemIds, MAX_ITEMS_PER_PAGE)]
ErrorBodies == [status : Statuses \ {200}, total_count : {0}, items : {<<>>}]
Latencies == 0..MaxLatency
Endpoints == {"search", "tree", "repo", "blob"}
\* the search endpoint answering anything, whatever is asked
AnyAnswer == [e \in Endpoints |-> Bodies \cup ErrorBodies]

\* fetch_repo_structure before its first request
NoBranch == "none"
NoWalk == [tree |-> 0, repo |-> 0]

\* paths of a repository, and the substrings asked for; NoPattern is the
\* falsy path_pattern (None or "")
NoPattern == ""
Patterns == {"readme", "README", "setup", "tests"}
\* str.lower
Lower(p) ==
    CASE p = "README.md" -> "readme.md"
      [] p = "README" -> "readme"
      [] OTHER -> p
\* str.contains(pattern) on a path
Contains(path, pattern) ==
    <<pattern, path>> \in {<<"readme", "readme.md">>, <<"README", "README.md">>,
                           <<"setup", "setup.py">>}

\* GET /repos/{owner}/{repo}/git/trees/{branch}?recursive=1
Readme == [type |-> "blob", path |-> "README.md", url |-> "blob/readme"]
Setup == [type |-> "blob", path |-> "setup.py", url |-> "blob/setup"]
SrcDir == [type |-> "tree", path |-> "src", url |-> "tree/src"]
Trees == {<<>>, <<SrcDir>>, <<SrcDir, Readme, Setup>>}
TreeBodies == [status : {200}, tree : Trees]
\* GET /repos/{owner}/{repo}
RepoBodies == [status : {200}, default_branch : {"main"}]
\* GET of a blob url
BlobBodies == [status : {200}, content : {"aGVsbG8="}]


(* ------------------------ src/utils/api.py ---------------------------- *)
\* make_safe_request: `while counter <= retry_attempts`
LoopContinues(c, r) == c <= r

\* variant: every status but 200 is retried
IsRateLimited_AnyError(status) == status # 200

\* make_safe_request: the one status that is retried
IsRateLimited(status) == status = 403

\* get_date_range: `if end_date < start_date: raise ValueError`
DateRangeFails(s, e) == (IF e = None THEN s ELSE e) < s

\* variant: the days of the range, the last one first
get_date_range_Descending(s, e) ==
    LET last == IF e = None THEN s ELSE e
    IN  [i \in 1..(last - s + 1) |-> last - i + 1]

\* get_date_range: the closed range of days, or the ValueError
get_date_range(s, e) ==
    LET last == IF e = None THEN s ELSE e
    IN  [i \in 1..(last - s + 1) |-> s + i - 1]

\* requests.get answers with a response: 200 returns it, 403 counts, sleeps
\* `timeout` and loops, any other status leaves the loop and is returned
Get(R, L) ==
    /\ pc = "get"
    /\ LoopContinues(counter, retry_attempts)
    /\ \E r \in R[endpoint], lat \in L :
          LET retried == r.status # 200 /\ IsRateLimited(r.status)
              t == now + lat + (IF retried THEN timeout ELSE 0)
              c == IF retried THEN counter + 1 ELSE counter
          IN  /\ t <= MaxTime
              /\ now' = t
              /\ counter' = c
              /\ response' = r
              /\ gets' = Append(gets, r.status)
              /\ sleeps' = IF retried THEN Append(sleeps, timeout) ELSE sleeps
              /\ pc' = IF retried /\ LoopContinues(c, retry_attempts)
                       THEN "get" ELSE "returned"
    /\ UNCHANGED <<cfgVars, budgetVars, fetchVars, driverVars, walkVars,
                   storeVars, error, reqTimes, endpoint>>

\* requests.get raises (timeout, connection reset): make_safe_request
\* catches nothing, the exception leaves it
GetRaises(L) ==
    /\ pc = "get"
    /\ LoopContinues(counter, retry_attempts)
    /\ \E lat \in L :
          /\ now + lat <= MaxTime
          /\ now' = now + lat
    /\ gets' = Append(gets, Raised)
    /\ pc' = "threw"
    /\ error' = "RequestException"
    /\ UNCHANGED <<cfgVars, budgetVars, fetchVars, driverVars, walkVars,
                   storeVars, endpoint, counter, response, sleeps, reqTimes>>

\* the call make_safe_request(url, ...): a request is dispatched
CallClient(e) ==
    /\ pc' = "get"
    /\ endpoint' = e
    /\ counter' = 0
    /\ response' = NoResponse
    /\ gets' = <<>>
    /\ sleeps' = <<>>
    /\ reqTimes' = Append(reqTimes, now')

(* ----------------- src/etl/repo_info/extractor.py --------------------- *)
max_pages == SEARCH_ITEMS_LIMIT \div MAX_ITEMS_PER_PAGE

_activity_period(t) == t - _start

\* variants: the test lets one request too many through, or one too few
BudgetExhausted_Late(c, m) == c > m
BudgetExhausted_Early(c, m) == c + 1 >= m

\* fetch_repos: the test guarding the throttling sleep
BudgetExhausted(c, m) == c >= m

\* _update_request_counter at time t: the new <<_start, _request_counter>>
UpdateRequestCounter(t) ==
    IF _activity_period(t) < RATE_LIMITER_WINDOW
    THEN <<_start, _request_counter + 1>>
    ELSE <<t, 0>>

\* variant: an empty page does not end the harvest
StopPaging_IgnoreEmpty(p, total_count, items) ==
    p >= max_pages \/ total_count < MAX_ITEMS_PER_PAGE

\* fetch_repos: the break condition after a page
StopPaging(p, total_count, items) ==
    p >= max_pages \/ total_count < MAX_ITEMS_PER_PAGE \/ items = <<>>

\* variant: the new page is put in front
Concat_Front(d, items) == items \o d

\* fetch_repos: df = pd.concat((df, pd.DataFrame(items)))
Concat(d, items) == d \o items

\* variant: the overwrite flag is read the wrong way round
SkipKey_Inverted(ow, exists) == ow /\ exists

\* extract: `if not overwrite and os.path.exists(filename)`
SkipKey(ow, exists) == ~ow /\ exists

\* fetch_repos calls make_safe_request: a page request is dispatched
EnterClient ==
    /\ CallClient("search")
    /\ winReqs' = winReqs + 1
    /\ UNCHANGED <<_start, _request_counter>>

\* fetch_repos, top of the loop over pages: under budget, or the window has
\* already elapsed, the request goes out; otherwise the sleep loop starts
CheckBudget ==
    /\ pc = "check"
    /\ LET wait == RATE_LIMITER_WINDOW - _activity_period(now)
       IN  IF BudgetExhausted(_request_counter, max_requests_per_hour) /\ wait > 0
           THEN /\ throttle' = wait
                /\ slept' = <<>>
                /\ pc' = "throttle"
                /\ UNCHANGED <<now, clientVars, budgetVars, reqTimes>>
           ELSE /\ UNCHANGED <<now, throttle, slept>>
                /\ EnterClient
    /\ UNCHANGED <<cfgVars, driverVars, walkVars, storeVars, error, page, df,
                   pageLog>>

\* variant: the remaining wait is slept in one piece
ThrottleSleep_OneLongSleep ==
    /\ pc = "throttle"
    /\ throttle > 0
    /\ now + throttle <= MaxTime
    /\ now' = now + throttle
    /\ throttle' = 0
    /\ slept' = Append(slept, throttle)
    /\ EnterClient
    /\ UNCHANGED <<cfgVars, driverVars, walkVars, storeVars, error, page, df,
                   pageLog>>

\* one turn of `while timeout > 0`: sleep min(60, timeout)
ThrottleSleep ==
    /\ pc = "throttle"
    /\ throttle > 0
    /\ LET window == Min(SLEEP_SLICE, throttle)
       IN  /\ now + window <= MaxTime
           /\ now' = now + window
           /\ throttle' = throttle - window
           /\ slept' = Append(slept, window)
           /\ IF throttle - window > 0
              THEN /\ pc' = "throttle"
                   /\ UNCHANGED <<clientVars, budgetVars, reqTimes>>
              ELSE EnterClient
    /\ UNCHANGED <<cfgVars, driverVars, walkVars, storeVars, error, page, df,
                   pageLog>>

\* the classes harvesting the search endpoint: RepoInfoExtractor and
\* RepoMetadataExtractor (src/etl/extractors/repo_metadata.py), which
\* src/etl/flows.py runs
SearchHarvesters == {"info", "metadata"}

\* RepoMetadataExtractor.fetch_repos has no raise_for_status:
\* response.json()["total_count"] on the body of an error raises KeyError
FetchReposKeyError ==
    /\ prog = "metadata"
    /\ pc = "returned"
    /\ endpoint = "search"
    /\ response.status # 200
    /\ pc' = "raised"
    /\ error' = "KeyError"
    /\ UNCHANGED <<now, walkVars, cfgVars, clientVars, budgetVars, fetchVars, driverVars,
                   storeVars, reqTimes>>

\* response.raise_for_status() on a response that is not 200
RaiseForStatus ==
    /\ prog = "info"
    /\ pc = "returned"
    /\ endpoint = "search"
    /\ response.status # 200
    /\ pc' = "raised"
    /\ error' = "HTTPError"
    /\ UNCHANGED <<now, walkVars, cfgVars, clientVars, budgetVars, fetchVars, driverVars,
                   storeVars, reqTimes>>

\* variant: the exception is swallowed and the next language is taken
FetchReposThrew_Continues ==
    /\ pc = "threw"
    /\ endpoint = "search"
    /\ pc' = "extract"
    /\ li' = li + 1
    /\ error' = "none"
    /\ UNCHANGED <<now, walkVars, cfgVars, clientVars, budgetVars, fetchVars,
                   storeVars, reqTimes, dates, di, start, keyLog>>

\* fetch_repos and extract catch nothing and run logs and re-raises
FetchReposThrew ==
    /\ pc = "threw"
    /\ endpoint = "search"
    /\ pc' = "raised"
    /\ UNCHANGED <<now, walkVars, cfgVars, clientVars, budgetVars, fetchVars,
                   driverVars, storeVars, error, reqTimes>>

\* a 200 page: append its items, pace, count the request, then break, or go
\* on with the next page of range(1, max_pages + 1)
ProcessPage ==
    /\ pc = "returned"
    /\ endpoint = "search"
    /\ response.status = 200
    /\ now + pagination_timeout <= MaxTime
    /\ now' = now + pagination_timeout
    /\ df' = Concat(df, response.items)
    /\ pageLog' = Append(pageLog, response)
    /\ LET u == UpdateRequestCounter(now')
       IN  /\ _start' = u[1]
           /\ _request_counter' = u[2]
           /\ winReqs' = IF u[1] = _start THEN winReqs ELSE 0
    /\ IF StopPaging(page, response.total_count, response.items)
          \/ page + 1 \notin 1..max_pages
       THEN pc' = "save" /\ page' = page
       ELSE pc' = "check" /\ page' = page + 1
    /\ UNCHANGED <<walkVars, cfgVars, clientVars, driverVars, storeVars, error, throttle,
                   slept, reqTimes>>


\* the key the extract loop is at
created_at == dates[di]
CurrentKey == <<languages[li], created_at>>

KeyReached(skipped) ==
    [key |-> CurrentKey, existed |-> fs[CurrentKey].exists,
     file |-> fs[CurrentKey], reqs |-> Len(reqTimes), skipped |-> skipped,
     seen |-> Append(keyLog.seen, CurrentKey)]

\* run: get_date_range raises before the first date
RunBadRange ==
    /\ prog \in SearchHarvesters
    /\ pc = "run"
    /\ DateRangeFails(start_date, end_date)
    /\ pc' = "raised"
    /\ error' = "ValueError"
    /\ UNCHANGED <<now, walkVars, cfgVars, clientVars, budgetVars, fetchVars, driverVars,
                   storeVars, reqTimes>>

\* run: the range is computed and extract is called for its first date
RunStart ==
    /\ prog \in SearchHarvesters
    /\ pc = "run"
    /\ ~DateRangeFails(start_date, end_date)
    /\ dates' = get_date_range(start_date, end_date)
    /\ di' = 1
    /\ li' = 1
    /\ pc' = "extract"
    /\ UNCHANGED <<now, walkVars, cfgVars, clientVars, budgetVars, fetchVars, storeVars,
                   error, reqTimes, start, keyLog>>

\* extract: the loop over languages is over; run goes to the next date or ends
ExtractReturn ==
    /\ pc = "extract"
    /\ li > Len(languages)
    /\ IF di < Len(dates)
       THEN di' = di + 1 /\ li' = 1 /\ pc' = "extract"
       ELSE di' = di /\ li' = li /\ pc' = "done"
    /\ UNCHANGED <<now, walkVars, cfgVars, clientVars, budgetVars, fetchVars, storeVars,
                   error, reqTimes, dates, start, keyLog>>

\* extract: `raise ValueError("Language is not supported!")`
ExtractUnsupported ==
    /\ pc = "extract"
    /\ li <= Len(languages)
    /\ languages[li] \notin SUPPORTED_LANGUAGES
    /\ pc' = "raised"
    /\ error' = "ValueError"
    /\ UNCHANGED <<now, walkVars, cfgVars, clientVars, budgetVars, fetchVars, driverVars,
                   storeVars, reqTimes>>

\* RepoMetadataExtractor.extract_repos: the artifact exists and overwrite is
\* off: `return`, which leaves the loop over languages
ExtractReposSkip ==
    /\ prog = "metadata"
    /\ pc = "extract"
    /\ li <= Len(languages)
    /\ languages[li] \in SUPPORTED_LANGUAGES
    /\ SkipKey(overwrite, fs[CurrentKey].exists)
    /\ keyLog' = KeyReached(TRUE)
    /\ li' = Len(languages) + 1
    /\ UNCHANGED <<now, walkVars, cfgVars, clientVars, budgetVars, fetchVars, storeVars,
                   pc, error, reqTimes, dates, di, start>>

\* extract: the artifact exists and overwrite is off: `continue`
ExtractSkip ==
    /\ prog = "info"
    /\ pc = "extract"
    /\ li <= Len(languages)
    /\ languages[li] \in SUPPORTED_LANGUAGES
    /\ SkipKey(overwrite, fs[CurrentKey].exists)
    /\ keyLog' = KeyReached(TRUE)
    /\ li' = li + 1
    /\ UNCHANGED <<now, walkVars, cfgVars, clientVars, budgetVars, fetchVars, storeVars,
                   pc, error, reqTimes, dates, di, start>>

\* extract: fetch_repos is called for the key
ExtractFetch ==
    /\ pc = "extract"
    /\ li <= Len(languages)
    /\ languages[li] \in SUPPORTED_LANGUAGES
    /\ ~SkipKey(overwrite, fs[CurrentKey].exists)
    /\ keyLog' = KeyReached(FALSE)
    /\ start' = now
    /\ page' = 1
    /\ df' = <<>>
    /\ pageLog' = <<>>
    /\ pc' = IF max_pages >= 1 THEN "check" ELSE "save"
    /\ UNCHANGED <<now, walkVars, cfgVars, clientVars, budgetVars, storeVars, error,
                   reqTimes, dates, di, li, throttle, slept>>

\* _save_file_metadata: INSERT ... ON CONFLICT (repo_language,
\* repo_creation_date) DO UPDATE SET file_path, elapsed_time_seconds, updated_at
Upsert(m, key, n_repos, elapsed, t) ==
    IF ~m[key].present
    THEN [m EXCEPT ![key] = Row(n_repos, elapsed, t)]
    ELSE [m EXCEPT ![key] = Row(m[key].n_repos, elapsed, t)]

\* extract: fetch_repos returned no row: nothing is written
SaveNothing ==
    /\ pc = "save"
    /\ Len(df) = 0
    /\ li' = li + 1
    /\ pc' = "extract"
    /\ UNCHANGED <<now, walkVars, cfgVars, clientVars, budgetVars, fetchVars, storeVars,
                   error, reqTimes, dates, di, start, keyLog>>

\* extract: df.to_parquet(filename), then the metadata row when a DB is set;
\* writing takes time
SaveFile(L) ==
    /\ pc = "save"
    /\ Len(df) > 0
    /\ \E lat \in L :
          /\ now + lat <= MaxTime
          /\ now' = now + lat
    /\ fs' = [fs EXCEPT ![CurrentKey] = File(df)]
    /\ meta' = IF db THEN Upsert(meta, CurrentKey, Len(df), now' - start, now')
               ELSE meta
    /\ li' = li + 1
    /\ pc' = "extract"
    /\ UNCHANGED <<walkVars, cfgVars, clientVars, budgetVars, fetchVars, error,
                   reqTimes, dates, di, start, keyLog>>

\* extract: the file is written and self.db.execute raises
SaveFileDbFails(L) ==
    /\ pc = "save"
    /\ Len(df) > 0
    /\ db
    /\ \E lat \in L :
          /\ now + lat <= MaxTime
          /\ now' = now + lat
    /\ fs' = [fs EXCEPT ![CurrentKey] = File(df)]
    /\ pc' = "raised"
    /\ error' = "DBError"
    /\ UNCHANGED <<walkVars, cfgVars, clientVars, budgetVars, fetchVars, driverVars,
                   meta, reqTimes>>

(* ------------- src/etl/extraction/repo_structure.py ------------------- *)
\* DataFrame.drop_duplicates: the first of equal rows stays
RECURSIVE drop_duplicates(_)
drop_duplicates(rows) ==
    IF rows = <<>> THEN <<>>
    ELSE LET init == drop_duplicates(SubSeq(rows, 1, Len(rows) - 1))
             last == rows[Len(rows)]
         IN  IF \E i \in 1..Len(init) : init[i] = last THEN init
             ELSE Append(init, last)

\* select_repo_info: the rows of github.repo of the key, LIMIT when `limit`
select_repo_info(language, creation_date, lim) ==
    LET rows == repos_db[<<language, creation_date>>]
        cut == IF lim # None THEN SubSeq(rows, 1, Min(lim, Len(rows))) ELSE rows
    IN  drop_duplicates(cut)

\* fetch_repo_structure after its loop: content["tree"], or data["type"] on
\* a frame made of no entry, raises KeyError
TreeRaises(r) == "tree" \notin DOMAIN r \/ r.tree = <<>>

\* fetch_repo_structure after its loop: the blobs, paths lowered, those
\* containing path_pattern when one is given
TreeRows(r, pattern) ==
    LET blobs == SelectSeq(r.tree, LAMBDA e : e.type = "blob")
        data == [i \in 1..Len(blobs) |-> [blobs[i] EXCEPT !.path = Lower(@)]]
    IN  IF pattern # NoPattern
        THEN SelectSeq(data, LAMBDA e : Contains(e.path, pattern))
        ELSE data

\* variant: a repository whose fetch raised leaves no row
RepoFrame_DropFailed(id, raised, r, pattern) ==
    IF raised \/ TreeRaises(r) THEN <<>>
    ELSE LET rows == TreeRows(r, pattern)
         IN  IF rows # <<>>
             THEN [i \in 1..Len(rows) |->
                      [repo_id |-> id, path |-> rows[i].path,
                       url |-> rows[i].url]]
             ELSE <<[repo_id |-> id]>>

\* extract, one row of repo_df: the frame appended to `output`; an exception
\* of fetch_repo_structure and an empty frame both give the one-column row
RepoFrame(id, raised, r, pattern) ==
    LET rows == IF raised \/ TreeRaises(r) THEN <<>> ELSE TreeRows(r, pattern)
    IN  IF rows # <<>>
        THEN [i \in 1..Len(rows) |->
                 [repo_id |-> id, path |-> rows[i].path, url |-> rows[i].url]]
        ELSE <<[repo_id |-> id]>>

\* run: the languages that are in SUPPORTED_LANGUAGES, the default for None
StructureLanguages(l) ==
    LET given == IF l = <<>> THEN <<"python", "jupyter-notebook">> ELSE l
    IN  SelectSeq(given, LAMBDA x : x \in STRUCTURE_LANGUAGES)

\* fetch_repo_structure is called for row i of repo_df: its first request
FetchRepoStructure(rows, i) ==
    /\ branch' = rows[i].branch
    /\ tree_response' = NoResponse
    /\ walk' = [tree |-> 1, repo |-> 0]
    /\ CallClient("tree")

\* the loops of run go on after the key
NextKey ==
    /\ li' = li + 1
    /\ pc' = "key"

\* run: no language is left after the filter
StructureRunNoLanguage ==
    /\ prog = "structure"
    /\ pc = "run"
    /\ StructureLanguages(languages) = <<>>
    /\ pc' = "raised"
    /\ error' = "ValueError"
    /\ UNCHANGED <<now, cfgVars, clientVars, budgetVars, fetchVars, driverVars,
                   walkVars, storeVars, reqTimes>>

\* run: get_date_range raises
StructureRunBadRange ==
    /\ prog = "structure"
    /\ pc = "run"
    /\ StructureLanguages(languages) # <<>>
    /\ DateRangeFails(start_date, end_date)
    /\ languages' = StructureLanguages(languages)
    /\ pc' = "raised"
    /\ error' = "ValueError"
    /\ UNCHANGED <<now, argVars, clientVars, budgetVars, fetchVars, driverVars,
                   walkVars, storeVars, reqTimes>>

\* run: the loops over dates and languages start
StructureRunStart ==
    /\ prog = "structure"
    /\ pc = "run"
    /\ StructureLanguages(languages) # <<>>
    /\ ~DateRangeFails(start_date, end_date)
    /\ languages' = StructureLanguages(languages)
    /\ dates' = get_date_range(start_date, end_date)
    /\ di' = 1
    /\ li' = 1
    /\ pc' = "key"
    /\ UNCHANGED <<now, argVars, clientVars, budgetVars, fetchVars, walkVars,
                   storeVars, error, reqTimes, start, keyLog>>

\* run: the loop over languages is over: next date, or run returns
RunNextDate ==
    /\ pc = "key"
    /\ li > Len(languages)
    /\ IF di < Len(dates)
       THEN di' = di + 1 /\ li' = 1 /\ pc' = "key"
       ELSE di' = di /\ li' = li /\ pc' = "done"
    /\ UNCHANGED <<now, cfgVars, clientVars, budgetVars, fetchVars, walkVars,
                   storeVars, error, reqTimes, dates, start, keyLog>>

\* run: select_repo_info returns no row for the key
StructureNoRepos ==
    /\ prog = "structure"
    /\ pc = "key"
    /\ li <= Len(languages)
    /\ select_repo_info(languages[li], created_at, limit) = <<>>
    /\ NextKey
    /\ UNCHANGED <<now, cfgVars, clientVars, budgetVars, fetchVars, walkVars,
                   storeVars, error, reqTimes, dates, di, start, keyLog>>

\* extract: the file exists and overwrite is off: `return filename`
StructureExtractSkip ==
    /\ prog = "structure"
    /\ pc = "key"
    /\ li <= Len(languages)
    /\ select_repo_info(languages[li], created_at, limit) # <<>>
    /\ SkipKey(overwrite, fs[CurrentKey].exists)
    /\ keyLog' = KeyReached(TRUE)
    /\ NextKey
    /\ UNCHANGED <<now, cfgVars, clientVars, budgetVars, fetchVars, walkVars,
                   storeVars, error, reqTimes, dates, di, start>>

\* extract: the loop over repo_df starts with its first row
StructureExtractStart ==
    /\ prog = "structure"
    /\ pc = "key"
    /\ li <= Len(languages)
    /\ select_repo_info(languages[li], created_at, limit) # <<>>
    /\ ~SkipKey(overwrite, fs[CurrentKey].exists)
    /\ keyLog' = KeyReached(FALSE)
    /\ repo_df' = select_repo_info(languages[li], created_at, limit)
    /\ ri' = 1
    /\ output' = <<>>
    /\ now' = now
    /\ FetchRepoStructure(repo_df', 1)
    /\ UNCHANGED <<cfgVars, budgetVars, fetchVars, storeVars, error, dates, di,
                   li, start, url_df, input_data, pi>>

\* extract, end of one row of repo_df: the frame joins `output`, the worker
\* sleeps pagination_timeout, then the next row starts or, after the last
\* row, pd.concat(output) is written (it holds a row per repository at least)
StructureRowDone(frame) ==
    /\ now + pagination_timeout <= MaxTime
    /\ now' = now + pagination_timeout
    /\ output' = output \o frame
    /\ IF ri < Len(repo_df)
       THEN /\ ri' = ri + 1
            /\ FetchRepoStructure(repo_df, ri + 1)
            /\ UNCHANGED <<fs, li>>
       ELSE /\ fs' = [fs EXCEPT ![CurrentKey] = File(output')]
            /\ NextKey
            /\ UNCHANGED <<ri, branch, tree_response, walk, clientVars,
                           reqTimes>>
    /\ UNCHANGED <<cfgVars, budgetVars, fetchVars, meta, dates, di, start,
                   keyLog, repo_df, url_df, input_data, pi>>

\* fetch_repo_structure: the tree request answered 200: `break`, the rows
StructureTreeOk ==
    /\ pc = "returned"
    /\ endpoint = "tree"
    /\ response.status = 200
    /\ StructureRowDone(RepoFrame(repo_df[ri].id, FALSE, response,
                                  path_pattern))
    /\ UNCHANGED error

\* fetch_repo_structure: neither 200 nor 404: `break`, and content["tree"]
\* raises, which extract catches
StructureTreeFailed ==
    /\ pc = "returned"
    /\ endpoint = "tree"
    /\ response.status \notin {200, 404}
    /\ StructureRowDone(RepoFrame(repo_df[ri].id, FALSE, response,
                                  path_pattern))
    /\ UNCHANGED error

\* fetch_repo_structure: 404: get_branch asks for the repository
StructureTreeNotFound ==
    /\ pc = "returned"
    /\ endpoint = "tree"
    /\ response.status = 404
    /\ tree_response' = response
    /\ walk' = [walk EXCEPT !.repo = @ + 1]
    /\ now' = now
    /\ CallClient("repo")
    /\ UNCHANGED <<cfgVars, budgetVars, fetchVars, driverVars, storeVars, error,
                   repo_df, url_df, input_data, pi, ri, branch, output>>

\* get_branch returns None (not 200): `break` with the 404 tree response,
\* whose content["tree"] raises
StructureBranchUnresolved ==
    /\ pc = "returned"
    /\ endpoint = "repo"
    /\ response.status # 200
    /\ StructureRowDone(RepoFrame(repo_df[ri].id, FALSE, tree_response,
                                  path_pattern))
    /\ UNCHANGED error

\* get_branch returns default_branch: the loop asks for the tree again
StructureBranchResolved ==
    /\ pc = "returned"
    /\ endpoint = "repo"
    /\ response.status = 200
    /\ walk.tree < MaxTreeFetches
    /\ branch' = response.default_branch
    /\ walk' = [walk EXCEPT !.tree = @ + 1]
    /\ now' = now
    /\ CallClient("tree")
    /\ UNCHANGED <<cfgVars, budgetVars, fetchVars, driverVars, storeVars, error,
                   repo_df, url_df, input_data, pi, ri, tree_response, output>>

\* extract: `except Exception` around fetch_repo_structure
StructureCallThrew ==
    /\ pc = "threw"
    /\ endpoint \in {"tree", "repo"}
    /\ error' = "none"
    /\ StructureRowDone(RepoFrame(repo_df[ri].id, TRUE, response,
                                  path_pattern))

(* -------------- src/etl/extraction/repo_content.py -------------------- *)
\* "path" in url_df.columns
HasPathColumn(rows) == \E i \in 1..Len(rows) : "path" \in DOMAIN rows[i]

\* extract: the rows whose lowered path contains the lowered pattern (a row
\* without a path never does), the first `limit` of them when limit is set
InputData(rows, key, lim) ==
    LET mask(row) == /\ "path" \in DOMAIN row
                     /\ Contains(Lower(row.path), Lower(key))
        hits == SelectSeq(rows, mask)
    IN  IF lim # None THEN SubSeq(hits, 1, Min(lim, Len(hits))) ELSE hits

\* fetch_content: the record; content is None when the request raised or the
\* JSON holds no "content"
NoContent == "None"
Record(row, raised, r) ==
    [repo_id |-> row.repo_id, path |-> row.path, url |-> row.url,
     content |-> IF raised \/ "content" \notin DOMAIN r THEN NoContent
                 ELSE r.content]

\* extract, when nothing was fetched: url_df["repo_id"].drop_duplicates()
RepoIds(rows) ==
    drop_duplicates([i \in 1..Len(rows) |-> [repo_id |-> rows[i].repo_id]])

\* the file of the (language, pattern, date) the loops of run are at
ContentKey == <<languages[li], path_pattern[pi], created_at>>

ContentKeyReached(skipped) ==
    [key |-> ContentKey, existed |-> fs[ContentKey].exists,
     file |-> fs[ContentKey], reqs |-> Len(reqTimes), skipped |-> skipped,
     seen |-> Append(keyLog.seen, ContentKey)]

\* run: get_date_range raises
ContentRunBadRange ==
    /\ prog = "content"
    /\ pc = "run"
    /\ DateRangeFails(start_date, end_date)
    /\ languages' = IF languages = <<>> THEN <<"python">> ELSE languages
    /\ pc' = "raised"
    /\ error' = "ValueError"
    /\ UNCHANGED <<now, argVars, clientVars, budgetVars, fetchVars, driverVars,
                   walkVars, storeVars, reqTimes>>

\* run: the loops over dates and languages start
ContentRunStart ==
    /\ prog = "content"
    /\ pc = "run"
    /\ ~DateRangeFails(start_date, end_date)
    /\ languages' = IF languages = <<>> THEN <<"python">> ELSE languages
    /\ dates' = get_date_range(start_date, end_date)
    /\ di' = 1
    /\ li' = 1
    /\ pc' = "key"
    /\ UNCHANGED <<now, argVars, clientVars, budgetVars, fetchVars, walkVars,
                   storeVars, error, reqTimes, start, keyLog>>

\* run: pd.read_parquet raises FileNotFoundError, or the frame has no
\* "path" column: `continue`
ContentNoInput ==
    /\ prog = "content"
    /\ pc = "key"
    /\ li <= Len(languages)
    /\ \/ ~in_files[CurrentKey].exists
       \/ ~HasPathColumn(in_files[CurrentKey].rows)
    /\ NextKey
    /\ UNCHANGED <<now, cfgVars, clientVars, budgetVars, fetchVars, walkVars,
                   storeVars, error, reqTimes, dates, di, start, keyLog>>

\* run: the input file is read and the loop over path_pattern starts
ContentReadInput ==
    /\ prog = "content"
    /\ pc = "key"
    /\ li <= Len(languages)
    /\ in_files[CurrentKey].exists
    /\ HasPathColumn(in_files[CurrentKey].rows)
    /\ url_df' = in_files[CurrentKey].rows
    /\ pi' = 1
    /\ pc' = "pattern"
    /\ UNCHANGED <<now, cfgVars, clientVars, budgetVars, fetchVars, driverVars,
                   storeVars, error, reqTimes, repo_df, input_data, ri, branch,
                   tree_response, output, walk>>

\* run: the loop over path_pattern is over
ContentPatternsDone ==
    /\ pc = "pattern"
    /\ pi > Len(path_pattern)
    /\ NextKey
    /\ UNCHANGED <<now, cfgVars, clientVars, budgetVars, fetchVars, walkVars,
                   storeVars, error, reqTimes, dates, di, start, keyLog>>

\* the loop over path_pattern goes on after the pattern
NextPattern ==
    /\ pi' = pi + 1
    /\ pc' = "pattern"

\* extract: the file exists and overwrite_existed_files is off
ContentExtractSkip ==
    /\ pc = "pattern"
    /\ pi <= Len(path_pattern)
    /\ SkipKey(overwrite, fs[ContentKey].exists)
    /\ keyLog' = ContentKeyReached(TRUE)
    /\ NextPattern
    /\ UNCHANGED <<now, cfgVars, clientVars, budgetVars, fetchVars, storeVars,
                   error, reqTimes, dates, di, li, start, repo_df, url_df,
                   input_data, ri, branch, tree_response, output, walk>>

\* extract: no path matches: the repo_id column of url_df is written
ContentExtractEmpty ==
    /\ pc = "pattern"
    /\ pi <= Len(path_pattern)
    /\ ~SkipKey(overwrite, fs[ContentKey].exists)
    /\ InputData(url_df, path_pattern[pi], limit) = <<>>
    /\ keyLog' = ContentKeyReached(FALSE)
    /\ input_data' = <<>>
    /\ output' = <<>>
    /\ fs' = [fs EXCEPT ![ContentKey] = File(RepoIds(url_df))]
    /\ NextPattern
    /\ UNCHANGED <<now, cfgVars, clientVars, budgetVars, fetchVars, meta, error,
                   reqTimes, dates, di, li, start, repo_df, url_df, ri, branch,
                   tree_response, walk>>

\* extract: the loop over input_data starts with its first row
ContentExtractStart ==
    /\ pc = "pattern"
    /\ pi <= Len(path_pattern)
    /\ ~SkipKey(overwrite, fs[ContentKey].exists)
    /\ InputData(url_df, path_pattern[pi], limit) # <<>>
    /\ keyLog' = ContentKeyReached(FALSE)
    /\ input_data' = InputData(url_df, path_pattern[pi], limit)
    /\ ri' = 1
    /\ output' = <<>>
    /\ now' = now
    /\ CallClient("blob")
    /\ UNCHANGED <<cfgVars, budgetVars, fetchVars, storeVars, error, dates, di,
                   li, start, repo_df, url_df, pi, branch, tree_response, walk>>

\* extract, end of one row of input_data: the record joins `output`, the
\* worker sleeps pagination_timeout, then the next row starts or, after the
\* last row, the frame is written
ContentRowDone(record) ==
    /\ now + pagination_timeout <= MaxTime
    /\ now' = now + pagination_timeout
    /\ output' = Append(output, record)
    /\ IF ri < Len(input_data)
       THEN /\ ri' = ri + 1
            /\ CallClient("blob")
            /\ UNCHANGED <<fs, pi>>
       ELSE /\ fs' = [fs EXCEPT ![ContentKey] = File(output')]
            /\ NextPattern
            /\ UNCHANGED <<ri, clientVars, reqTimes>>
    /\ UNCHANGED <<cfgVars, budgetVars, fetchVars, driverVars, meta, repo_df,
                   url_df, input_data, branch, tree_response, walk>>

\* fetch_content: make_safe_request returned, whatever the status
ContentFetched ==
    /\ pc = "returned"
    /\ endpoint = "blob"
    /\ UNCHANGED error
    /\ ContentRowDone(Record(input_data[ri], FALSE, response))

\* variant: fetch_content lets the exception through
ContentThrew_Propagates ==
    /\ pc = "threw"
    /\ endpoint = "blob"
    /\ pc' = "raised"
    /\ UNCHANGED <<now, cfgVars, clientVars, budgetVars, fetchVars, driverVars,
                   walkVars, storeVars, error, reqTimes>>

\* fetch_content: `except Exception` around make_safe_request
ContentThrew ==
    /\ pc = "threw"
    /\ endpoint = "blob"
    /\ error' = "none"
    /\ ContentRowDone(Record(input_data[ri], TRUE, response))

(* ---------------------- src/utils/db_handler.py ----------------------- *)
\* the rows of a table: the key columns and updated_at
RowKeys == 1..MaxRowKey
Stamps == 1..MaxStamp
TableRows == [key : RowKeys, updated_at : Stamps]

\* variant: `t1.updated_at <= t2.updated_at`
Deleted_OrEqual(t1, t) ==
    \E t2 \in BagToSet(t) : t1.updated_at <= t2.updated_at /\ t1.key = t2.key

\* variant: `t1.updated_at > t2.updated_at`
Deleted_Newer(t1, t) ==
    \E t2 \in BagToSet(t) : t1.updated_at > t2.updated_at /\ t1.key = t2.key

\* drop_duplicates: DELETE FROM t1 USING t2 WHERE t1.updated_at <
\* t2.updated_at AND t1.key = t2.key: the rows the statement deletes
Deleted(t1, t) ==
    \E t2 \in BagToSet(t) : t1.updated_at < t2.updated_at /\ t1.key = t2.key

\* the bag t without the rows of the set gone
Without(t, gone) == [r \in BagToSet(t) \ gone |-> t[r]]

\* drop_duplicates(table, key_columns)
DropDuplicates ==
    /\ pc = "store"
    /\ Len(calls) < MaxCalls
    /\ table' = Without(table, {r \in BagToSet(table) : Deleted(r, table)})
    /\ calls' = Append(calls, [op |-> "drop_duplicates", frame |-> None])
    /\ UNCHANGED <<now, runArgs, languages, batches, todo, clientVars,
                   budgetVars, fetchVars, driverVars, walkVars, storeVars, pc,
                   error, reqTimes>>

\* update_table(data, table): to_sql(if_exists="append")
UpdateTable ==
    /\ pc = "store"
    /\ Len(calls) < MaxCalls
    /\ \E b \in todo :
          /\ table' = table (+) batches[b]
          /\ todo' = todo \ {b}
          /\ calls' = Append(calls, [op |-> "update_table", frame |-> b])
    /\ UNCHANGED <<now, runArgs, languages, batches, clientVars, budgetVars,
                   fetchVars, driverVars, walkVars, storeVars, pc, error,
                   reqTimes>>

(* ------ src/etl/transformer.py, py_packages_extraction.py ------------- *)
\* run, the loops over languages and dates: the file the loops are at
LoadNext == CHOOSE b \in todo : \A c \in todo : b <= c

\* run: os.path.exists(filename) is false (a warning), or the file holds no
\* row for the table
LoadMissingFile ==
    /\ pc = "load"
    /\ todo # {}
    /\ batches[LoadNext] = EmptyBag
    /\ todo' = todo \ {LoadNext}
    /\ UNCHANGED <<now, runArgs, languages, table, batches, calls, clientVars,
                   budgetVars, fetchVars, driverVars, walkVars, storeVars, pc,
                   error, reqTimes>>

\* run: the file is processed and update_tables / db.update_table appends
\* its rows to the table
LoadFile ==
    /\ pc = "load"
    /\ todo # {}
    /\ batches[LoadNext] # EmptyBag
    /\ table' = table (+) batches[LoadNext]
    /\ todo' = todo \ {LoadNext}
    /\ calls' = Append(calls, [op |-> "update_table", frame |-> LoadNext])
    /\ UNCHANGED <<now, runArgs, languages, batches, clientVars, budgetVars,
                   fetchVars, driverVars, walkVars, storeVars, pc, error,
                   reqTimes>>

\* run: read_parquet, process_file / prepare, the update_table of another
\* table or a drop_duplicates raises; run has no try, the exception leaves it
LoadRaises ==
    /\ pc = "load"
    /\ pc' = "raised"
    /\ error' = "LoadError"
    /\ UNCHANGED <<now, cfgVars, clientVars, budgetVars, fetchVars, driverVars,
                   walkVars, storeVars, reqTimes>>

\* run, after the loops: db.drop_duplicates(table, key_columns), and run
\* returns
LoadDropDuplicates ==
    /\ pc = "load"
    /\ todo = {}
    /\ table' = Without(table, {r \in BagToSet(table) : Deleted(r, table)})
    /\ calls' = Append(calls, [op |-> "drop_duplicates", frame |-> None])
    /\ pc' = "done"
    /\ UNCHANGED <<now, runArgs, languages, batches, todo, clientVars,
                   budgetVars, fetchVars, driverVars, walkVars, storeVars,
                   error, reqTimes>>

(* --------------------------- specification ---------------------------- *)
\* RepoInfoExtractor(...) has been constructed with the arguments of input i
\* and the worker stands at position p: "run" when run has just been called,
\* "check" inside the first fetch_repos call, "get" inside its first
\* make_safe_request call
Started(i, p) ==
    /\ prog = i.prog
    /\ table = EmptyBag
    /\ batches = IF "batches" \in DOMAIN i THEN i.batches ELSE <<>>
    /\ todo = DOMAIN batches
    /\ calls = <<>>
    /\ repos_db = i.repos_db
    /\ path_pattern = i.path_pattern
    /\ in_files = i.in_files
    /\ limit = i.limit
    /\ repo_df = <<>>
    /\ url_df = <<>>
    /\ input_data = <<>>
    /\ pi = 0
    /\ ri = 0
    /\ branch = NoBranch
    /\ tree_response = NoResponse
    /\ output = <<>>
    /\ walk = NoWalk
    /\ endpoint = IF p = "get" THEN "search" ELSE "none"
    /\ max_requests_per_hour = i.max_requests_per_hour
    /\ retry_attempts = i.retry_attempts
    /\ timeout = i.timeout
    /\ pagination_timeout = i.pagination_timeout
    /\ db = i.db
    /\ languages = i.languages
    /\ start_date = i.start_date
    /\ end_date = i.end_date
    /\ overwrite = i.overwrite
    /\ fs = i.fs
    /\ meta = IF "meta" \in DOMAIN i THEN i.meta ELSE NoRows
    /\ now = 0
    /\ _start = 0
    /\ _request_counter = 0
    /\ pc = p
    /\ error = "none"
    /\ dates = IF p = "run" THEN <<>> ELSE get_date_range(i.start_date, i.end_date)
    /\ di = IF p = "run" THEN 0 ELSE 1
    /\ li = IF p = "run" THEN 0 ELSE 1
    /\ start = 0
    /\ page = IF p = "run" THEN 0 ELSE 1
    /\ df = <<>>
    /\ throttle = 0
    /\ slept = <<>>
    /\ pageLog = <<>>
    /\ counter = 0
    /\ response = NoResponse
    /\ gets = <<>>
    /\ sleeps = <<>>
    /\ reqTimes = IF p = "get" THEN <<0>> ELSE <<>>
    /\ winReqs = IF p = "get" THEN 1 ELSE 0
    /\ keyLog = [key |-> IF p = "run" THEN <<>> ELSE <<i.languages[1], i.start_date>>,
                 existed |-> FALSE, file |-> NoFile, reqs |-> 0,
                 skipped |-> FALSE,
                 seen |-> IF p = "run" THEN <<>>
                          ELSE <<(<<i.languages[1], i.start_date>>)>>]

\* one key, no artifact on disk
InfoRun ==
    [prog : {"info"}, repos_db : {NoRepos}, path_pattern : {NoPattern},
     in_files : {NoFiles}, limit : {None}]

OneKey ==
    [db : {FALSE}, languages : {<<"python">>}, start_date : {1},
     end_date : {None}, overwrite : {FALSE}, fs : {NoFiles}]

Timings(budgets, retries, timeouts, pacings) ==
    [max_requests_per_hour : budgets, retry_attempts : retries,
     timeout : timeouts, pagination_timeout : pacings]

Join(A, B) == {a @@ b : a \in A, b \in B}

(* make_safe_request alone, under every answer of the provider *)
ClientInputs ==
    Join(Join(InfoRun, OneKey),
         Timings({MaxBudget}, 0..MaxRetry, 1..MaxTimeout, {0}))
InitClient == \E i \in ClientInputs : Started(i, "get")
NextClient ==
    \/ Get(AnyAnswer, Latencies)
    \/ GetRaises(Latencies)
SpecClient == InitClient /\ [][NextClient]_vars

(* one fetch_repos call on a fresh extractor, under every page content *)
FetchInputs ==
    Join(Join(InfoRun, OneKey),
         Timings(1..MaxBudget, 0..MaxRetry, {1}, 0..MaxPaginationTimeout))
InitFetch == \E i \in FetchInputs : Started(i, "check")
NextFetch ==
    \/ CheckBudget
    \/ ThrottleSleep
    \/ Get(AnyAnswer, {0})
    \/ GetRaises({0})
    \/ FetchReposThrew
    \/ RaiseForStatus
    \/ ProcessPage
SpecFetch == InitFetch /\ [][NextFetch]_vars
\* the same, the worker not halting inside the sleep loop
SpecThrottle == SpecFetch /\ WF_vars(ThrottleSleep)

(* whole runs of RepoInfoExtractor.run, pages told apart by size only *)
FullPage == [k \in 1..MAX_ITEMS_PER_PAGE |-> 1]
PlainBodies ==
    {[status |-> 200, total_count |-> 0, items |-> <<>>],
     [status |-> 200, total_count |-> 1, items |-> <<1>>],
     [status |-> 200, total_count |-> SEARCH_ITEMS_LIMIT, items |-> FullPage]}
PlainErrors == [status : {403, 404}, total_count : {0}, items : {<<>>}]
PlainAnswer == [e \in Endpoints |-> PlainBodies \cup PlainErrors]

OneFile == [k \in Keys |-> IF k = <<"python", 1>> THEN File(<<1>>) ELSE NoFile]

RunInputs ==
    Join(Join(InfoRun,
         [db : BOOLEAN, languages : {<<"python", "go">>, <<"go", "cobol">>},
          start_date : {1}, end_date : {None}, overwrite : BOOLEAN,
          fs : {NoFiles, OneFile}]
         \cup [db : {FALSE}, languages : {<<"python">>}, start_date : Dates,
               end_date : Dates, overwrite : {FALSE}, fs : {OneFile}]),
         Timings(1..MaxBudget, {0, MaxRetry}, {1}, 0..MaxPaginationTimeout))
Init == \E i \in RunInputs : Started(i, "run")
Next ==
    \/ RunBadRange
    \/ RunStart
    \/ ExtractReturn
    \/ ExtractUnsupported
    \/ ExtractSkip
    \/ ExtractFetch
    \/ CheckBudget
    \/ ThrottleSleep
    \/ Get(PlainAnswer, Latencies)
    \/ GetRaises(Latencies)
    \/ FetchReposThrew
    \/ RaiseForStatus
    \/ ProcessPage
    \/ SaveNothing
    \/ SaveFile(Latencies)
    \/ SaveFileDbFails(Latencies)
Spec == Init /\ [][Next]_vars

(* whole runs of the extractors *)
RunAnswer ==
    [e \in Endpoints |->
        PlainErrors \cup
        CASE e = "search" -> PlainBodies
          [] e = "tree" -> TreeBodies
          [] e = "repo" -> RepoBodies
          [] e = "blob" -> BlobBodies]

ContentKeys == Langs \X Patterns \X Dates
Only(keys, key, file) == [k \in keys |-> IF k = key THEN file ELSE NoFile]
ReposOf(n) == [i \in 1..n |-> [id |-> i, branch |-> "master"]]
Listed(rows) == [k \in Keys |-> IF k = <<"python", 1>> THEN rows ELSE <<>>]
Paced == Timings({1}, {1}, {1}, {1})
Vary(base, field, values) == {[base EXCEPT ![field] = v] : v \in values}

InfoBase ==
    [db |-> FALSE, languages |-> <<"python", "go">>, overwrite |-> FALSE,
     fs |-> NoFiles, start_date |-> 1, end_date |-> None, meta |-> NoRows]
\* repo_file_metadata after the earlier run that wrote OneFile
Registered ==
    [k \in Keys |-> IF OneFile[k].exists
                    THEN Row(Len(OneFile[k].rows), 0, 0) ELSE NoRow]
InfoArgs ==
    UNION {Vary(o, "fs", {NoFiles, OneFile}) :
           o \in Vary(InfoBase, "overwrite", BOOLEAN)}
    \cup Vary(InfoBase, "db", {TRUE})
    \cup Vary([InfoBase EXCEPT !.db = TRUE, !.overwrite = TRUE, !.fs = OneFile],
              "meta", {Registered})
    \cup Vary(InfoBase, "languages", {<<"cobol">>})
    \cup Vary([InfoBase EXCEPT !.end_date = 1], "start_date", {1, MaxDate})
    \cup Vary([InfoBase EXCEPT !.end_date = MaxDate], "languages",
              {<<"go", "python">>, <<"python", "cobol">>})
InfoInputs ==
    Join(Join(InfoRun, InfoArgs), Timings({1, MaxBudget}, {0}, {1}, {0}))

\* RepoMetadataExtractor.run: with and without the file of the first key
MetadataRun ==
    [prog : {"metadata"}, repos_db : {NoRepos}, path_pattern : {NoPattern},
     in_files : {NoFiles}, limit : {None}]
MetadataInputs ==
    Join(Join(MetadataRun, Vary(InfoBase, "fs", {NoFiles, OneFile})),
         Timings({MaxBudget}, {0}, {1}, {0}))

\* the walker: with and without the file of the key, every path_pattern;
\* then one argument varied at a time
StructureBase ==
    [prog |-> "structure", repos_db |-> Listed(ReposOf(1)),
     path_pattern |-> NoPattern, in_files |-> NoFiles, limit |-> None,
     db |-> FALSE, languages |-> <<>>, overwrite |-> FALSE, fs |-> NoFiles,
     start_date |-> 1, end_date |-> None]
StructureArgs ==
    UNION {Vary(b, "path_pattern", {NoPattern, "readme", "README"}) :
           b \in UNION {Vary(o, "fs",
                             {NoFiles, Only(Keys, <<"python", 1>>,
                                            File(<<[repo_id |-> 1]>>))}) :
                        o \in Vary(StructureBase, "overwrite", BOOLEAN)}}
    \cup Vary(StructureBase, "repos_db",
              {NoRepos, Listed(ReposOf(MaxRepos)),
               Listed(<<ReposOf(1)[1], ReposOf(1)[1]>>)})
    \cup Vary(StructureBase, "limit", {1})
    \cup Vary(StructureBase, "languages", {<<"go", "python">>, <<"cobol">>})
    \cup Vary([StructureBase EXCEPT !.end_date = 1], "start_date", {1, MaxDate})
StructureInputs == Join(StructureArgs, Timings({1}, {0}, {1}, {1}))

StructureFile ==
    File(<<[repo_id |-> 1, path |-> "readme.md", url |-> "blob/readme"],
           [repo_id |-> 1, path |-> "setup.py", url |-> "blob/setup"],
           [repo_id |-> 2],
           [repo_id |-> 3, path |-> "readme.md", url |-> "blob/readme3"]>>)

\* the content fetcher, alike
ContentBase ==
    [prog |-> "content", repos_db |-> NoRepos,
     path_pattern |-> <<"readme", "setup">>,
     in_files |-> Only(Keys, <<"python", 1>>, StructureFile), limit |-> None,
     db |-> FALSE, languages |-> <<>>, overwrite |-> FALSE,
     fs |-> [k \in ContentKeys |-> NoFile], start_date |-> 1,
     end_date |-> None]
ContentArgs ==
    UNION {Vary(b, "path_pattern",
                {<<"README">>, <<"readme", "setup">>, <<"tests">>}) :
           b \in UNION {Vary(o, "fs",
                             {[k \in ContentKeys |-> NoFile],
                              Only(ContentKeys, <<"python", "readme", 1>>,
                                   File(<<[repo_id |-> 1]>>))}) :
                        o \in Vary(ContentBase, "overwrite", BOOLEAN)}}
    \cup Vary(ContentBase, "in_files",
              {NoFiles, Only(Keys, <<"python", 1>>, File(<<[repo_id |-> 1]>>))})
    \cup Vary(ContentBase, "limit", {1})
    \cup Vary(ContentBase, "languages", {<<"go", "python">>})
    \cup Vary([ContentBase EXCEPT !.end_date = 1], "start_date", {1, MaxDate})
ContentInputs == Join(ContentArgs, Paced)

InitExtract ==
    \E i \in InfoInputs \cup MetadataInputs \cup StructureInputs
                \cup ContentInputs :
        Started(i, "run")
NextExtract ==
    \/ RunBadRange
    \/ RunStart
    \/ ExtractReturn
    \/ ExtractUnsupported
    \/ ExtractSkip
    \/ ExtractReposSkip
    \/ ExtractFetch
    \/ CheckBudget
    \/ ThrottleSleep
    \/ Get(RunAnswer, {0})
    \/ GetRaises({0})
    \/ FetchReposThrew
    \/ RaiseForStatus
    \/ FetchReposKeyError
    \/ ProcessPage
    \/ SaveNothing
    \/ SaveFile(Latencies)
    \/ SaveFileDbFails(Latencies)
    \/ StructureRunNoLanguage
    \/ StructureRunBadRange
    \/ StructureRunStart
    \/ RunNextDate
    \/ StructureNoRepos
    \/ StructureExtractSkip
    \/ StructureExtractStart
    \/ StructureTreeOk
    \/ StructureTreeFailed
    \/ StructureTreeNotFound
    \/ StructureBranchUnresolved
    \/ StructureBranchResolved
    \/ StructureCallThrew
    \/ ContentRunBadRange
    \/ ContentRunStart
    \/ ContentNoInput
    \/ ContentReadInput
    \/ ContentPatternsDone
    \/ ContentExtractSkip
    \/ ContentExtractEmpty
    \/ ContentExtractStart
    \/ ContentFetched
    \/ ContentThrew
SpecExtract == InitExtract /\ [][NextExtract]_vars

(* a table of the store under update_table and drop_duplicates *)
\* the frames of at most MaxBatch rows; a frame can hold a row twice
RECURSIVE BagOf(_)
BagOf(rows) ==
    IF rows = <<>> THEN EmptyBag
    ELSE BagOf(Tail(rows)) (+) SetToBag({Head(rows)})
Frames == {BagOf(rows) : rows \in SeqsUpTo(TableRows, MaxBatch)}
StoreInputs ==
    {i @@ [batches |-> <<a, b>>] :
        i \in Join(Join(InfoRun, OneKey), Timings({1}, {0}, {1}, {0})),
        a \in Frames \ {EmptyBag}, b \in Frames \ {EmptyBag}}
InitStore == \E i \in StoreInputs : Started(i, "store")
NextStore ==
    \/ UpdateTable
    \/ DropDuplicates
SpecStore == InitStore /\ [][NextStore]_vars

(* a load run: the files of input_dir appended one after the other *)
\* the rows one update_table call appends carry the time of the call
Stamped(ks, t) == SetToBag({[key |-> k, updated_at |-> t] : k \in ks})
LoadRun ==
    [prog : {"load"}, repos_db : {NoRepos}, path_pattern : {NoPattern},
     in_files : {NoFiles}, limit : {None}]
LoadInputs ==
    {i @@ [batches |-> <<Stamped(ka, t[1]), Stamped(kb, t[2])>>] :
        i \in Join(Join(LoadRun, OneKey), Timings({1}, {0}, {1}, {0})),
        ka \in SUBSET RowKeys, kb \in SUBSET RowKeys,
        t \in {u \in Stamps \X Stamps : u[1] <= u[2]}}
InitLoad == \E i \in LoadInputs : Started(i, "load")
NextLoad ==
    \/ LoadMissingFile
    \/ LoadFile
    \/ LoadRaises
    \/ LoadDropDuplicates
SpecLoad == InitLoad /\ [][NextLoad]_vars

(* ======================= request budget (Spec) ======================== *)
LastRequest == reqTimes[Len(reqTimes)]
InFlight == pc \in {"get", "returned"}

\* C1: _request_counter never exceeds max_requests_per_hour; a page request
\* that goes out while the counter stands at the maximum goes out only once
\* RATE_LIMITER_WINDOW has passed since _start; and the counter update that
\* follows such a request sets _start to the current time and the counter to 0.
C1_BudgetInvariant ==
    /\ [](/\ _request_counter <= max_requests_per_hour
          /\ (InFlight /\ _request_counter >= max_requests_per_hour)
                => LastRequest - _start >= RATE_LIMITER_WINDOW)
    /\ [][(pc = "returned" /\ pc' \in {"check", "save"}
            /\ _request_counter >= max_requests_per_hour)
          => (_start' = now' /\ _request_counter' = 0)]_vars

\* a throttled request has been answered and the window has been reset
C1_Witness ==
    /\ pc \in {"check", "save"}
    /\ slept # <<>>
    /\ _start = now
    /\ _start > 0
    /\ _request_counter = 0

RequestsIn(t) ==
    Cardinality({k \in 1..Len(reqTimes) :
                    t <= reqTimes[k] /\ reqTimes[k] < t + RATE_LIMITER_WINDOW})

\* C2: every interval of RATE_LIMITER_WINDOW ticks, wherever it starts, holds
\* at most max_requests_per_hour dispatched page requests.
C2_RollingWindow ==
    \A t \in 0..MaxTime : RequestsIn(t) <= max_requests_per_hour

\* C3: the throttling sleep is entered only when max_requests_per_hour page
\* requests have already gone out since _start, and a further request of that
\* window goes out only once RATE_LIMITER_WINDOW has passed since _start.
C3_BudgetMonotonicity ==
    /\ pc = "throttle" => winReqs >= max_requests_per_hour
    /\ (InFlight /\ winReqs > max_requests_per_hour)
          => LastRequest - _start >= RATE_LIMITER_WINDOW

\* request max_requests_per_hour + 1 of a window is in flight, after the
\* sleep that its budget check started
C3_Witness ==
    /\ pc = "get"
    /\ winReqs = max_requests_per_hour + 1
    /\ max_requests_per_hour > 1
    /\ slept # <<>>
    /\ throttle = 0
    /\ LastRequest = now

(* =================== idempotent skip (SpecExtract) ==================== *)
\* C4: whenever an extract step (of the search harvester, the structure
\* walker or the content fetcher) is reached for a key whose file exists and
\* overwrite is off, the step dispatches no request, leaves every file and
\* every metadata row as it is, raises nothing and the loop goes on with
\* the next key.
C4_IdempotentSkip ==
    [][/\ (/\ prog = "info"
           /\ pc = "extract"
           /\ li <= Len(languages)
           /\ languages[li] \in SUPPORTED_LANGUAGES
           /\ fs[<<languages[li], dates[di]>>].exists
           /\ ~overwrite)
          => (/\ fs' = fs
              /\ meta' = meta
              /\ reqTimes' = reqTimes
              /\ error' = "none"
              /\ pc' = "extract"
              /\ li' = li + 1)
       /\ (/\ prog = "structure"
           /\ pc = "key"
           /\ li <= Len(languages)
           /\ select_repo_info(languages[li], dates[di], limit) # <<>>
           /\ fs[<<languages[li], dates[di]>>].exists
           /\ ~overwrite)
          => (/\ fs' = fs
              /\ meta' = meta
              /\ reqTimes' = reqTimes
              /\ error' = "none"
              /\ pc' = "key"
              /\ li' = li + 1)
       /\ (/\ prog = "content"
           /\ pc = "pattern"
           /\ pi <= Len(path_pattern)
           /\ fs[<<languages[li], path_pattern[pi], dates[di]>>].exists
           /\ ~overwrite)
          => (/\ fs' = fs
              /\ meta' = meta
              /\ reqTimes' = reqTimes
              /\ error' = "none"
              /\ pc' = "pattern"
              /\ pi' = pi + 1)]_vars

\* a key has just been skipped
C4_Witness ==
    /\ keyLog.skipped
    /\ keyLog.existed
    /\ ~overwrite
    /\ fs[keyLog.key] = keyLog.file
    /\ Len(reqTimes) = keyLog.reqs

(* ====================== HTTP client (SpecClient) ====================== *)
CallEnded == pc \in {"returned", "threw"}
LastGet == gets[Len(gets)]

\* C5: one call with retry budget R issues at most R GETs, and every sleep
\* after a 403 lasts `timeout`.
C5_RetryBound ==
    /\ retry_attempts >= 1 => Len(gets) <= retry_attempts
    /\ \A k \in 1..Len(sleeps) : sleeps[k] = timeout

\* C6: a call whose every attempt was answered 403 until the budget was spent
\* fails with an error and returns no response.
C6_ExhaustionRaises ==
    (/\ CallEnded
     /\ counter > retry_attempts
     /\ \A k \in 1..Len(gets) : gets[k] = 403)
    => pc = "threw"

Transient == {403, 429, 500, Raised}

\* C7: a call ends on a transient failure (403, 429, 5xx, an exception of the
\* GET) only when the attempts are used up.
C7_TransientRetried ==
    (CallEnded /\ gets # <<>> /\ LastGet \in Transient)
    => Len(gets) > retry_attempts

\* C8: an answer that is neither 200 nor 403 ends the call at once: it is the
\* last GET, no sleep follows it, the response is returned without an error
\* and the extractor's own state is as it was.
C8_NotFoundNotRetried ==
    \A k \in 1..Len(gets) :
        gets[k] \in {404, 429, 500}
        => /\ k = Len(gets)
           /\ Len(sleeps) = k - 1
           /\ pc = "returned"
           /\ error = "none"
           /\ response.status = gets[k]
           /\ _start = 0
           /\ _request_counter = 0
           /\ fs = NoFiles

\* a 404 to the first GET has been returned
C8_Witness == pc = "returned" /\ gets = <<404>> /\ response.status = 404

(* ======================== pagination (SpecFetch) ====================== *)
StopsAfter(k) ==
    \/ k >= max_pages
    \/ pageLog[k].total_count < MAX_ITEMS_PER_PAGE
    \/ pageLog[k].items = <<>>

AllPagesFull ==
    \A k \in 1..Len(pageLog) :
        /\ Len(pageLog[k].items) = MAX_ITEMS_PER_PAGE
        /\ pageLog[k].total_count >= MAX_ITEMS_PER_PAGE

\* C9: a harvest never asks for more than max_pages pages; it goes on after a
\* page exactly when the ceiling is not reached, total_count is at least one
\* full page and the page is not empty; total_count = 0 ends it after one
\* request, full pages end it after exactly max_pages requests.
C9_PaginationTermination ==
    /\ Len(reqTimes) <= max_pages
    /\ \A k \in 1..Len(pageLog) :
          StopsAfter(k) <=> (k = Len(pageLog) /\ pc = "save")
    /\ pc = "save"
          => /\ pageLog # <<>>
             /\ Len(reqTimes) = Len(pageLog)
             /\ pageLog[1].total_count = 0 => Len(reqTimes) = 1
             /\ AllPagesFull => Len(reqTimes) = max_pages

\* full pages were harvested up to the ceiling
C9_Witness ==
    pc = "save" /\ AllPagesFull /\ Len(pageLog) = max_pages /\ max_pages > 1

RECURSIVE ItemsOf(_)
ItemsOf(log) ==
    IF log = <<>> THEN <<>>
    ELSE ItemsOf(SubSeq(log, 1, Len(log) - 1)) \o log[Len(log)].items

\* C10: the rows fetch_repos holds, and returns, are the items of the pages
\* it received, page after page, each page in the provider's order.
C10_Concatenation == df = ItemsOf(pageLog)

\* two pages came back, the first one not sorted
C10_Witness ==
    /\ pc = "save"
    /\ Len(pageLog) = 2
    /\ pageLog[1].items = <<2, 1>>
    /\ df = <<2, 1, 1>>

(* ================== structure walker (SpecExtract) ==================== *)
\* C11: one fetch_repo_structure call makes at most two tree fetches and at
\* most one default-branch lookup (the loop of fetch_repo_structure goes
\* back to the lookup after every 404, so the statement fails).
C11_SingleShotRecovery == walk.tree <= 2 /\ walk.repo <= 1

\* fetch_repo_structure has left its loop after a 404 without a tree: the
\* lookup did not answer 200, or the tree fetch after a lookup answered
\* neither 200 nor 404
RecoveryFailed ==
    /\ prog = "structure"
    /\ pc = "returned"
    /\ \/ endpoint = "repo" /\ response.status # 200
       \/ endpoint = "tree" /\ walk.repo > 0 /\ response.status \notin {200, 404}
\* `response` of fetch_repo_structure when the loop is left
LoopResponse == IF endpoint = "repo" THEN tree_response ELSE response

\* C12 as stated: when the recovery fails fetch_repo_structure does not
\* raise (it does: content["tree"] on the error body is a KeyError).
C12_RecoveryDoesNotRaise == RecoveryFailed => ~TreeRaises(LoopResponse)

\* C12, amended: when the recovery fails fetch_repo_structure raises, extract
\* catches the exception, records the one-column row of the repository and
\* goes on with the next repository or writes the file; nothing propagates.
C12_RecoveryFailureIsCaught ==
    [][RecoveryFailed
       => /\ TreeRaises(LoopResponse)
          /\ output' = output \o <<[repo_id |-> repo_df[ri].id]>>
          /\ error' = "none"
          /\ \/ pc' = "get" /\ ri' = ri + 1
             \/ /\ pc' = "key"
                /\ ri = Len(repo_df)
                /\ fs'[CurrentKey] = File(output')]_vars

\* the lookup of the last repository failed and the file has been written
C12_Witness ==
    /\ prog = "structure"
    /\ pc = "key"
    /\ endpoint = "repo"
    /\ response.status # 200
    /\ walk.repo >= 1
    /\ output # <<>>
    /\ output[Len(output)] = [repo_id |-> repo_df[ri].id]
    /\ error = "none"

\* C13: the batch output holds exactly one entry per repository of the
\* batch, and a repository whose tree fetch raises yields the marker row
\* {repo_id, is_failed: true} (the row extract writes holds repo_id only, so
\* the statement fails).
C13_FailureMarker ==
    [][(prog = "structure" /\ pc = "threw" /\ endpoint \in {"tree", "repo"})
       => output' = output \o <<[repo_id |-> repo_df[ri].id,
                                 is_failed |-> TRUE]>>]_vars

(* =================== content fetcher (SpecExtract) ==================== *)
\* make_safe_request has ended inside fetch_content
FetchContentEnds ==
    prog = "content" /\ pc \in {"returned", "threw"} /\ endpoint = "blob"
\* the request raised, did not answer 200, or its body holds no "content"
FetchContentFailed ==
    \/ pc = "threw"
    \/ response.status # 200
    \/ "content" \notin DOMAIN response
RecordOf(row, content) ==
    [repo_id |-> row.repo_id, path |-> row.path, url |-> row.url,
     content |-> content]

\* C14: every matched row gets exactly one record, in the order of the rows;
\* its content is None when the request raised, answered another status
\* than 200 or carried no content, and the fetched content otherwise; no
\* exception leaves fetch_content, the loop goes on with the next row and
\* after the last row the file holds one record per matched row.
C14_ContentBestEffort ==
    /\ [](prog = "content" /\ pc \in {"get", "returned", "threw"}
          => /\ Len(output) = ri - 1
             /\ error \in {"none", "RequestException"}
             /\ \A j \in 1..Len(output) :
                   \E c \in {NoContent} \cup {b.content : b \in BlobBodies} :
                       output[j] = RecordOf(input_data[j], c))
    /\ [](prog = "content" /\ pc = "raised" => reqTimes = <<>>)
    /\ [][FetchContentEnds
          => /\ output' = Append(output,
                              RecordOf(input_data[ri],
                                       IF FetchContentFailed THEN NoContent
                                       ELSE response.content))
             /\ error' = "none"
             /\ \/ pc' = "get" /\ ri' = ri + 1
                \/ /\ pc' = "pattern"
                   /\ ri = Len(input_data)
                   /\ Len(output') = Len(input_data)
                   /\ fs'[ContentKey] = File(output')]_vars

\* two rows matched: the first fetch failed, the second one succeeded, and
\* the file holds both records
C14_Witness ==
    /\ prog = "content"
    /\ pc = "pattern"
    /\ Len(input_data) = 2
    /\ Len(output) = 2
    /\ output[1].content = NoContent
    /\ output[2].content # NoContent
    /\ keyLog.key \in DOMAIN fs
    /\ fs[keyLog.key] = File(output)

(* ========================= store (SpecStore) ========================== *)
KeyRows(t, k) == {r \in BagToSet(t) : r.key = k}
\* the rows sharing a key have pairwise distinct updated_at values
DistinctStamps(t) == \A r \in BagToSet(t) : t[r] = 1
Newest(t, k) ==
    CHOOSE r \in KeyRows(t, k) :
        \A q \in KeyRows(t, k) : q.updated_at <= r.updated_at
LastCall == calls[Len(calls)]
Dropped == calls # <<>> /\ LastCall.op = "drop_duplicates"
DropStep == calls' = Append(calls, [op |-> "drop_duplicates", frame |-> None])

\* C15: when the rows sharing a key have pairwise distinct updated_at
\* values, drop_duplicates leaves for every key of the table exactly one
\* row, the one with the greatest updated_at, and adds no row.
C15_DedupKeepsNewest ==
    [][(DropStep /\ DistinctStamps(table))
       => \A k \in RowKeys :
             IF KeyRows(table, k) = {} THEN KeyRows(table', k) = {}
             ELSE /\ KeyRows(table', k) = {Newest(table, k)}
                  /\ table'[Newest(table, k)] = 1]_vars

\* both frames were appended, two keys held an older and a newer row, and
\* drop_duplicates has left one row for each
C15_Witness ==
    /\ Dropped
    /\ todo = {}
    /\ Len(calls) = 3
    /\ DistinctStamps(batches[1] (+) batches[2])
    /\ \A k \in 1..2 : Cardinality(KeyRows(batches[1] (+) batches[2], k)) = 2
    /\ BagCardinality(table) = 2

\* C16: after drop_duplicates at most one row per key remains, whatever the
\* table held (rows of one key with the same updated_at all stay, so the
\* statement fails).
C16_OneRowPerKey ==
    Dropped
    => \A k \in RowKeys :
          /\ Cardinality(KeyRows(table, k)) <= 1
          /\ \A r \in KeyRows(table, k) : table[r] = 1

\* the rows with the greatest updated_at of their key, as often as t has them
NewestOnly(t) ==
    Without(t, {r \in BagToSet(t) :
                   \E q \in BagToSet(t) :
                       q.key = r.key /\ q.updated_at > r.updated_at})

KeysInOrder(ds, ls) ==
    [n \in 1..(Len(ds) * Len(ls)) |->
        <<ls[((n - 1) % Len(ls)) + 1], ds[((n - 1) \div Len(ls)) + 1]>>]
LastDate == IF end_date = None THEN start_date ELSE end_date

\* C18: a run of the search harvester takes the days from start_date to
\* end_date, each once and in ascending order, and starts the keys one after
\* the other, date by date and within a date in the order of `languages`; a
\* run that returns has started every key.
C18_KeyOrder ==
    (prog = "info" /\ pc # "run" /\ dates # <<>>)
    => /\ Len(dates) = LastDate - start_date + 1
       /\ \A i \in 1..Len(dates) : dates[i] = start_date + i - 1
       /\ Len(keyLog.seen) <= Len(dates) * Len(languages)
       /\ keyLog.seen
             = SubSeq(KeysInOrder(dates, languages), 1, Len(keyLog.seen))
       /\ pc = "done" => keyLog.seen = KeysInOrder(dates, languages)

\* a run over two days and two languages has returned
C18_Witness ==
    /\ prog = "info"
    /\ pc = "done"
    /\ Len(dates) >= 2
    /\ Len(languages) = 2
    /\ Len(keyLog.seen) = 2 * Len(dates)
    /\ keyLog.seen[1] = <<"go", 1>>
    /\ keyLog.seen[2] = <<"python", 1>>
    /\ keyLog.seen[3] = <<"go", 2>>

(* =========================== fail fast (Spec) ========================= *)
\* processing the key has failed: the client raised, the page is not a 200,
\* or the language is not supported
KeyFails ==
    \/ pc = "threw"
    \/ pc = "returned" /\ response.status # 200
    \/ /\ pc = "extract"
       /\ li <= Len(languages)
       /\ languages[li] \notin SUPPORTED_LANGUAGES

\* C19: when the processing of a key fails the run raises at once: no file
\* is touched by the failing step, no key is started afterwards, and the
\* files written for the earlier keys stay as they were written (a step
\* writes the file of the key it is at, and nothing else).
C19_FailFast ==
    /\ [][KeyFails => (pc' = "raised" /\ error' # "none" /\ fs' = fs
                       /\ meta' = meta /\ keyLog' = keyLog)]_vars
    /\ [][pc # "raised"]_vars
    /\ [][\A k \in Keys :
             fs'[k] # fs[k] => (pc = "save" /\ k = CurrentKey)]_vars
    /\ [](pc = "raised" => error # "none")

\* the first key was written, the second one failed
C19_Witness ==
    /\ pc = "raised"
    /\ error \in {"HTTPError", "RequestException"}
    /\ Len(keyLog.seen) = 2
    /\ ~keyLog.existed
    /\ fs[keyLog.seen[1]].exists
    /\ ~fs[keyLog.seen[2]].exists
    /\ keyLog.reqs >= 1

(* ================== metadata registration (SpecExtract) =============== *)
\* C20: a key whose fetch brought rows is registered with the values of this
\* extraction, record count and elapsed seconds, also when the key already
\* has a row (ON CONFLICT leaves n_repos as it was, so the statement fails).
C20_MetadataUpsert ==
    [][(prog = "info" /\ pc = "save" /\ db /\ Len(df) > 0 /\ pc' = "extract")
       => /\ meta'[CurrentKey].present
          /\ meta'[CurrentKey].n_repos = Len(df)
          /\ meta'[CurrentKey].elapsed_time_seconds = now' - start]_vars

(* ================ configuration errors (SpecExtract) ================== *)
\* the arguments of run hold a configuration error: a language that is not
\* supported, or an end_date before start_date
ConfigurationError ==
    \/ \E i \in 1..Len(languages) : languages[i] \notin SUPPORTED_LANGUAGES
    \/ DateRangeFails(start_date, end_date)

\* C21: a run of the search harvester whose language list holds an
\* unsupported language, at whatever place of the list, or whose end_date is
\* before start_date, dispatches no request (extract tests a language only
\* when the loop reaches it, so the languages before it are harvested first
\* and the statement fails).
C21_ConfigErrorsFirst ==
    (prog = "info" /\ ConfigurationError) => reqTimes = <<>>

(* ===================== re-extraction (SpecExtract) ==================== *)
\* C22: when the search harvester, with overwrite on, has harvested a key
\* whose file existed, the file of the key holds exactly the rows of the new
\* harvest, whatever their number (an empty harvest writes nothing and the
\* old file stays, so the statement fails).
C22_OverwriteReplaces ==
    [][(/\ prog = "info"
        /\ pc = "save"
        /\ overwrite
        /\ keyLog.existed
        /\ pc' = "extract")
       => fs'[CurrentKey].rows = df]_vars

(* ====================== request counter (Spec) ======================== *)
\* C23: when a make_safe_request call of fetch_repos has ended, the step
\* that follows raises _request_counter by the number of GETs the call
\* dispatched, retries included, also when the window rolls over (the
\* counter is updated once per answered page, not at all when the call
\* fails, and is set to 0 on a roll-over, so the statement fails).
C23_CounterCountsRequests ==
    [][(prog = "info" /\ endpoint = "search" /\ pc \in {"returned", "threw"})
       => _request_counter' = _request_counter + Len(gets)]_vars

(* ================== budget gate (SpecExtract) ========================= *)
\* the requests dispatched since the window began: the page requests since
\* _start was set for the search harvester; every request for the walker and
\* the content fetcher, which never begin a new window
DispatchedInWindow ==
    IF prog \in SearchHarvesters THEN winReqs ELSE Len(reqTimes)

\* C24: whichever extractor runs, a request that goes out when
\* max_requests_per_hour requests have already gone out in the window goes
\* out only once RATE_LIMITER_WINDOW has passed since the window began
\* (RepoStructureExtractor and RepoContentExtractor hold no counter and call
\* make_safe_request unconditionally, so the statement fails).
C24_EveryCallGated ==
    (pc = "get" /\ DispatchedInWindow > max_requests_per_hour)
    => LastRequest - _start >= RATE_LIMITER_WINDOW

(* ======================= throttling (SpecThrottle) ==================== *)
RECURSIVE SumSeq(_)
SumSeq(q) == IF q = <<>> THEN 0 ELSE Head(q) + SumSeq(Tail(q))
\* the wait that is left when the budget test finds the budget exhausted
RemainingWait == RATE_LIMITER_WINDOW - _activity_period(now)

\* C25: when the budget is exhausted with a remaining wait W > 0 the sleep
\* loop starts with W to sleep; every turn sleeps between one tick and
\* SLEEP_SLICE, takes what it slept off the wait and dispatches nothing
\* while some wait is left; the slices add up to W, the loop ends, and the
\* pending request goes out once RATE_LIMITER_WINDOW has passed since
\* _start.
C25_ThrottleSlices ==
    /\ [][(pc = "check" /\ pc' = "throttle")
          => /\ BudgetExhausted(_request_counter, max_requests_per_hour)
             /\ throttle' = RemainingWait
             /\ throttle' > 0
             /\ slept' = <<>>
             /\ reqTimes' = reqTimes]_vars
    /\ [][pc = "throttle"
          => /\ now' - now \in 1..SLEEP_SLICE
             /\ slept' = Append(slept, now' - now)
             /\ throttle' = throttle - (now' - now)
             /\ throttle' >= 0
             /\ IF throttle' > 0
                THEN pc' = "throttle" /\ reqTimes' = reqTimes
                ELSE /\ pc' = "get"
                     /\ reqTimes' = Append(reqTimes, now')
                     /\ now' - _start >= RATE_LIMITER_WINDOW
                     /\ SumSeq(slept') = RATE_LIMITER_WINDOW
                                            - (now' - SumSeq(slept') - _start)]_vars
    /\ [](pc = "throttle" => throttle = RemainingWait /\ throttle > 0)
    /\ ((pc = "throttle" /\ now + throttle <= MaxTime) ~> pc = "get")

\* the pending request went out after a wait slept in more than one slice
C25_Witness ==
    /\ pc = "get"
    /\ Len(slept) >= 2
    /\ throttle = 0
    /\ LastRequest = now
    /\ SumSeq(slept) > SLEEP_SLICE
    /\ now - _start = RATE_LIMITER_WINDOW

(* ================ walker termination (SpecExtract) ==================== *)
\* C26: the loop of fetch_repo_structure never comes back to a state it has
\* been in: the default-branch lookup that follows a 404 of the tree request
\* never hands back the branch that was just answered 404 (it does whenever
\* the default branch itself has no tree: the loop then asks for the same
\* tree again with nothing changed, and with the same answers it never
\* ends, so no number of requests bounds the call).
C26_LoopMakesProgress ==
    (/\ prog = "structure"
     /\ pc = "returned"
     /\ endpoint = "repo"
     /\ response.status = 200)
    => response.default_branch # branch

(* =================== skip is local (SpecExtract) ====================== *)
\* C27: in a run of a search harvester with overwrite off, a key that is
\* reached while its file does not exist is harvested, and a run that
\* returns has reached every key of the range, whichever files existed
\* (the `return` of RepoMetadataExtractor.extract_repos leaves the loop over
\* the languages at the first file that exists, so the statement fails).
C27_SkipIsLocal ==
    /\ [][(/\ prog \in SearchHarvesters
           /\ pc = "extract"
           /\ li <= Len(languages)
           /\ languages[li] \in SUPPORTED_LANGUAGES
           /\ ~overwrite
           /\ ~fs[CurrentKey].exists)
          => (pc' = "check" /\ keyLog'.key = CurrentKey)]_vars
    /\ []((prog \in SearchHarvesters /\ pc = "done" /\ ~overwrite)
          => keyLog.seen = KeysInOrder(dates, languages))

(* ============ checkpoint and metadata (SpecExtract) =================== *)
\* C28: with a DB session, between the keys of a run of the search
\* harvester and when the run has returned or raised, every file of
\* output_dir has a row in repo_file_metadata whose n_repos is the number of
\* rows of the file (the file is written before the row: a failing insert
\* leaves the file without a row and a later run skips the key; and a
\* re-extraction leaves n_repos as it was; so the statement fails).
C28_FilesAreRegistered ==
    (prog = "info" /\ db /\ pc \in {"extract", "done", "raised"})
    => \A k \in Keys :
          fs[k].exists
          => meta[k].present /\ meta[k].n_repos = Len(fs[k].rows)

(* ========================= load run (SpecLoad) ======================== *)
\* two rows of t share their key and differ in updated_at
HoldsStaleRow(t) ==
    \E r, q \in BagToSet(t) : r.key = q.key /\ r.updated_at # q.updated_at

\* C29: when a load run that appended rows to the table is over, returned
\* or raised, drop_duplicates was the last call on the table and the table
\* holds no two rows with the same key and different updated_at (run calls
\* drop_duplicates after its loops and outside any try/finally: an
\* exception raised after an append leaves the run before it, so the
\* statement fails).
C29_DedupFollowsAppends ==
    (prog = "load" /\ pc \in {"done", "raised"} /\ calls # <<>>)
    => /\ LastCall.op = "drop_duplicates"
       /\ ~HoldsStaleRow(table)

(* ======================== page count (SpecFetch) ====================== *)
Max(a, b) == IF a > b THEN a ELSE b
Ceil(a, b) == (a + b - 1) \div b
\* the number of items of page k of a provider holding n repositories
Served(n, k) ==
    Min(MAX_ITEMS_PER_PAGE, Max(0, n - (k - 1) * MAX_ITEMS_PER_PAGE))
\* the pages received are those of a provider holding n repositories
ProviderHolds(n) ==
    \A k \in 1..Len(pageLog) :
        /\ pageLog[k].total_count = n
        /\ Len(pageLog[k].items) = Served(n, k)

\* C30: when the provider holds n repositories, 0 <= n <= SEARCH_ITEMS_LIMIT,
\* and serves them in pages of MAX_ITEMS_PER_PAGE, a harvest sends
\* max(1, ceil(n / MAX_ITEMS_PER_PAGE)) page requests (the loop goes on
\* while total_count, not the size of the page, reaches MAX_ITEMS_PER_PAGE:
\* below the page ceiling it asks for one page more, which comes back
\* empty, whenever n is a page or more; so the statement fails).
C30_PageCount ==
    \A n \in 0..SEARCH_ITEMS_LIMIT :
        (pc = "save" /\ ProviderHolds(n))
        => Len(reqTimes) = Max(1, Ceil(n, MAX_ITEMS_PER_PAGE))

=============================================================================
